---- MODULE Spec2Model ----
(***************************************************************************)
(* Model of andalus.covariance: the Covariance entity, its sparse          *)
(* lower-triangular persistence in a hierarchical (HDF5) store, index      *)
(* reconstruction with MT filtering, the block-diagonal CovarianceSuite    *)
(* assembly and the correlation derivation.                                *)
(*                                                                         *)
(* Conventions.  Positions in the persisted (row, col, value) triples are  *)
(* 0-based, as numpy produces them; TLA+ sequences are 1-based, so a       *)
(* position p addresses element p + 1.  An optional value (Python None or  *)
(* a value) is the empty sequence or a one-element sequence.  An operation *)
(* that raises leaves res.status naming the exception class.               *)
(***************************************************************************)
EXTENDS Integers, Sequences, FiniteSets, TLC

VARIABLES
    store,      \* the HDF5 file: a map from the keys present to their nodes
    persisted,  \* history: per nuclide, the matrix last handed to to_hdf5
    nputs,      \* number of to_hdf5 calls made so far
    items,      \* the map handed to CovarianceSuite.from_dict
    cov,        \* the matrix whose correlation is derived
    res,        \* the last operation: its name, arguments, status and result
    heap,       \* the frame objects alive, by identity (position)
    handles,    \* the handles on the store that are open
    pc,         \* the store operation in progress and the step it is at
    benchmarks  \* BenchmarkSuite.benchmarks: the (title, benchmark) entries

vars == <<store, persisted, nputs, items, cov, res, heap, handles, pc, benchmarks>>

\* What the operations on matrices as values leave alone.
others == <<heap, handles, pc, benchmarks>>

-----------------------------------------------------------------------------
(* Bounds of the model. *)

MaxN == 2        \* largest matrix dimension persisted
SuiteMaxN == 2   \* largest constituent matrix handed to from_dict
CorrMaxN == 2    \* largest matrix whose correlation is derived
Prec == 4        \* significand bits of the binary floating-point model
MaxPuts == 2     \* to_hdf5 calls per behaviour
MaxLevels == 5       \* most index levels of a persisted matrix
MaxBenchmarks == 2   \* largest BenchmarkSuite a behaviour starts from

None == <<>>
Some(x) == <<x>>

ZAIs == {922350, 922380}

standard_names == <<"MT", "E_min", "E_max">>

-----------------------------------------------------------------------------
(* Small sequence helpers. *)

Range(n) == 0 .. (n - 1)

SeqToSet(s) == {s[i] : i \in DOMAIN s}

Min2(a, b) == IF a < b THEN a ELSE b

\* Python slice s[:k] for k >= 0.
Take(s, k) == SubSeq(s, 1, Min2(k, Len(s)))

RECURSIVE SumSeq(_)
SumSeq(s) == IF s = <<>> THEN 0 ELSE Head(s) + SumSeq(Tail(s))

\* A square matrix of zeros.
Zeros(n) == [i \in 1..n |-> [j \in 1..n |-> 0]]

-----------------------------------------------------------------------------
(* Covariance objects: a DataFrame (index, columns, values) with the       *)
(* metadata named by Covariance._metadata.                                 *)

Covariance(index, names, values, zai, temperature, err) ==
    [index |-> index, columns |-> index, names |-> names, values |-> values,
     zai |-> zai, temperature |-> temperature, err |-> err]

\* cls(): an empty frame, no metadata set.
EmptyCovariance == Covariance(<<>>, <<>>, <<>>, None, None, None)

IsSymmetric(values) ==
    \A i \in DOMAIN values : \A j \in DOMAIN values : values[i][j] = values[j][i]

-----------------------------------------------------------------------------
(* The store.  A key is named by its nuclide and by which node of the      *)
(* nuclide's block it is; a node holds the rows of the persisted table and *)
(* its attributes (a map from the attribute names set so far).             *)

DataKey(z) == [zai |-> z, node |-> "data", level |-> 0]
LevelKey(z, i) == [zai |-> z, node |-> "level", level |-> i]
ValuesKey(z) == [zai |-> z, node |-> "values", level |-> 0]
\* A node to_hdf5 does not write: the table "part_<n>/data" in the group of z.
PartKey(z, n) == [zai |-> z, node |-> "part", level |-> n]

NoAttrs == [a \in {} |-> 0]

EmptyStore == [k \in {} |-> 0]

\* HDFStore.put(key, value, format="table"): an empty table writes no node at
\* all and leaves whatever the key held; otherwise the node is replaced, its
\* attributes with it.
StorePut(st, key, rows) ==
    IF rows = <<>> THEN st
    ELSE (key :> [rows |-> rows, attrs |-> NoAttrs]) @@ st

\* Assignment of attributes on the storer of an existing node.
SetAttrs(st, key, new) ==
    [st EXCEPT ![key] = [@ EXCEPT !.attrs = new @@ @]]

\* getattr(attrs, name, None)
GetAttr(attrs, name) == IF name \in DOMAIN attrs THEN Some(attrs[name]) ELSE None

-----------------------------------------------------------------------------
(* Covariance.to_hdf5 *)

\* np.tril_indices(n): the (row, col) pairs with col <= row, row by row.
RECURSIVE tril_indices(_)
tril_indices(n) ==
    IF n = 0 THEN <<>>
    ELSE tril_indices(n - 1) \o [c \in 1..n |-> <<n - 1, c - 1>>]

\* The rows of sparse_df: the lower-triangular entries that are not zero.
SparseRows(values) ==
    LET all == [k \in DOMAIN tril_indices(Len(values)) |->
                  LET rc == tril_indices(Len(values))[k]
                  IN  [row |-> rc[1], col |-> rc[2],
                       value |-> values[rc[1] + 1][rc[2] + 1]]]
    IN  SelectSeq(all, LAMBDA t : t.value # 0)

\* index.get_level_values(i) as a series.
LevelValues(index, i) == [p \in DOMAIN index |-> index[p][i + 1]]

\* The loop of puts over the index levels 0 .. n-1.
RECURSIVE PutLevels(_, _, _, _)
PutLevels(st, z, index, n) ==
    IF n = 0 THEN st
    ELSE StorePut(PutLevels(st, z, index, n - 1),
                  LevelKey(z, n - 1), LevelValues(index, n - 1))

\* The attributes with err among them.
BlockAttrs_WithErr(self) ==
    [shape |-> <<Len(self.values), Len(self.values)>>,
     index_names |-> self.names,
     is_multiindex |-> TRUE,
     zai |-> self.zai,
     temperature |-> self.temperature,
     err |-> self.err]

\* The attributes set on the storer of the triple table (lines 173-178).
BlockAttrs(self) ==
    [shape |-> <<Len(self.values), Len(self.values)>>,
     index_names |-> self.names,
     is_multiindex |-> TRUE,
     zai |-> self.zai,
     temperature |-> self.temperature]

\* The store and the outcome of self.to_hdf5(file): the levels are put, then
\* the triples; get_storer raises KeyError when the data node does not exist.
to_hdf5(st, self) ==
    LET z == self.zai[1]
        st1 == PutLevels(st, z, self.index, Len(self.names))
        st2 == StorePut(st1, DataKey(z), SparseRows(self.values))
    IN  IF DataKey(z) \notin DOMAIN st2
        THEN [store |-> st2, status |-> "KeyError"]
        ELSE [store |-> SetAttrs(st2, DataKey(z), BlockAttrs(self)), status |-> "ok"]

-----------------------------------------------------------------------------
(* Covariance._reconstruct_index *)

\* The loop over range(len(attrs.index_names)): the level tables found, in
\* order, up to the first level key that is not in the store.
RECURSIVE GatherLevels(_, _, _, _)
GatherLevels(st, z, i, n) ==
    IF i >= n \/ LevelKey(z, i) \notin DOMAIN st THEN <<>>
    ELSE <<st[LevelKey(z, i)].rows>> \o GatherLevels(st, z, i + 1, n)

\* pd.MultiIndex.from_arrays(levels): one key per position.
from_arrays(levels) ==
    [p \in 1..Len(levels[1]) |-> [i \in 1..Len(levels) |-> levels[i][p]]]

\* The fallback naming applied to every level count, three included.
CanonicalNames_AlwaysPrefixed(nlevels) == <<"ZAI">> \o Take(standard_names, nlevels - 1)

\* The names forced onto the rebuilt index.
CanonicalNames(nlevels) ==
    IF nlevels = 3 THEN standard_names
    ELSE <<"ZAI">> \o Take(standard_names, nlevels - 1)

reconstruct_index(st, z, attrs) ==
    IF ~attrs.is_multiindex
    THEN \* store[".../covariances_index/values"]
         IF ValuesKey(z) \notin DOMAIN st
         THEN [status |-> "KeyError", index |-> <<>>, names |-> <<>>]
         ELSE [status |-> "ok",
               index |-> [p \in DOMAIN st[ValuesKey(z)].rows |->
                            <<st[ValuesKey(z)].rows[p]>>],
               names |-> <<"values">>]
    ELSE LET index_levels == GatherLevels(st, z, 0, Len(attrs.index_names))
             n == Len(index_levels)
         IN  IF n = 0
             THEN \* from_arrays of no arrays
                  [status |-> "ValueError", index |-> <<>>, names |-> <<>>]
             ELSE IF \E i \in 1..n : Len(index_levels[i]) # Len(index_levels[1])
             THEN \* all arrays must be same length
                  [status |-> "ValueError", index |-> <<>>, names |-> <<>>]
             ELSE IF Len(CanonicalNames(n)) # n
             THEN \* length of names must match number of levels
                  [status |-> "ValueError", index |-> <<>>, names |-> <<>>]
             ELSE [status |-> "ok", index |-> from_arrays(index_levels),
                   names |-> CanonicalNames(n)]

-----------------------------------------------------------------------------
(* Covariance._assemble_matrix *)

\* An MT allow-list: none given, or the set of codes given.
NoFilter == [given |-> FALSE, codes |-> {}]
Filter(codes) == [given |-> TRUE, codes |-> codes]

\* Position (1-based) of a name among the index names, 0 when absent.
LevelOf(names, name) ==
    IF \E i \in DOMAIN names : names[i] = name
    THEN CHOOSE i \in DOMAIN names : names[i] = name
    ELSE 0

\* index.get_level_values("MT").isin(mts)
Mask(index, names, mts) ==
    [p \in DOMAIN index |-> index[p][LevelOf(names, "MT")] \in mts.codes]

\* np.where(mask)[0]: the surviving 0-based positions, ascending.
RECURSIVE Where(_, _)
Where(mask, from) ==
    IF from > Len(mask) THEN <<>>
    ELSE (IF mask[from] THEN <<from - 1>> ELSE <<>>) \o Where(mask, from + 1)

\* A renumbering that counts the surviving positions from the far end.
IdxMap_Reversed(kept) == [old \in SeqToSet(kept) |->
                   Len(kept) - (CHOOSE new \in DOMAIN kept : kept[new] = old)]

\* idx_map = {old: new for new, old in enumerate(kept)}
IdxMap(kept) == [old \in SeqToSet(kept) |->
                   (CHOOSE new \in DOMAIN kept : kept[new] = old) - 1]

\* The rows whose row and col both survive, renumbered.
FilterRows(rows, idx_map) ==
    LET surviving == SelectSeq(rows, LAMBDA t :
                        t.row \in DOMAIN idx_map /\ t.col \in DOMAIN idx_map)
    IN  [k \in DOMAIN surviving |->
           [row |-> idx_map[surviving[k].row],
            col |-> idx_map[surviving[k].col],
            value |-> surviving[k].value]]

\* coo_matrix((value, (row, col)), shape).toarray(): duplicates are summed.
CooDense(rows, n) ==
    [i \in 1..n |-> [j \in 1..n |->
        SumSeq([k \in DOMAIN SelectSeq(rows, LAMBDA t : t.row = i - 1 /\ t.col = j - 1) |->
                  SelectSeq(rows, LAMBDA t : t.row = i - 1 /\ t.col = j - 1)[k].value])]]

\* The stored lower triangle returned without its transpose.
Symmetrize_LowerOnly(dense) == dense

\* full_matrix = coo + coo.T; full_matrix.setdiag(coo.diagonal())
Symmetrize(dense) ==
    [i \in DOMAIN dense |-> [j \in DOMAIN dense |->
        IF i = j THEN dense[i][i] ELSE dense[i][j] + dense[j][i]]]

\* The stored shape kept even when rows were filtered away.
AssembledShape_Stored(mts, final_index, original_shape) == original_shape

\* shape = original_shape, or (len(final_index), len(final_index)) once filtered.
AssembledShape(mts, final_index, original_shape) ==
    IF mts.given THEN <<Len(final_index), Len(final_index)>> ELSE original_shape

assemble_matrix(sparse_rows, index, names, original_shape, mts) ==
    IF mts.given /\ LevelOf(names, "MT") = 0
    THEN \* Level MT not found
         [status |-> "KeyError", matrix |-> <<>>, final_index |-> <<>>]
    ELSE LET kept == Where(Mask(index, names, mts), 1)
             final_index == IF mts.given
                            THEN [k \in DOMAIN kept |-> index[kept[k] + 1]]
                            ELSE index
             rows == IF mts.given THEN FilterRows(sparse_rows, IdxMap(kept))
                     ELSE sparse_rows
             shape == AssembledShape(mts, final_index, original_shape)
         IN  IF \E k \in DOMAIN rows :
                    rows[k].row >= shape[1] \/ rows[k].col >= shape[2]
             THEN \* row or column index exceeds matrix dimensions
                  [status |-> "ValueError", matrix |-> <<>>, final_index |-> <<>>]
             ELSE [status |-> "ok",
                   matrix |-> Symmetrize(CooDense(rows, shape[1])),
                   final_index |-> final_index]

-----------------------------------------------------------------------------
(* Covariance.from_hdf5 *)

\* A lookup of the absent key that is not guarded.
LoadMissing_Raises == [status |-> "KeyError", cov |-> EmptyCovariance]

\* if key not in store: return cls()
LoadMissing == [status |-> "ok", cov |-> EmptyCovariance]

from_hdf5(st, zai, mts) ==
    IF DataKey(zai) \notin DOMAIN st
    THEN LoadMissing
    ELSE LET sparse_data == st[DataKey(zai)].rows
             attrs == st[DataKey(zai)].attrs
             idx == reconstruct_index(st, zai, attrs)
             asm == assemble_matrix(sparse_data, idx.index, idx.names,
                                    attrs.shape, mts)
         IN  IF idx.status # "ok"
             THEN [status |-> idx.status, cov |-> EmptyCovariance]
             ELSE IF asm.status # "ok"
             THEN [status |-> asm.status, cov |-> EmptyCovariance]
             ELSE IF Len(asm.matrix) # Len(asm.final_index)
             THEN \* shape of passed values does not match the indices
                  [status |-> "ValueError", cov |-> EmptyCovariance]
             ELSE [status |-> "ok",
                   cov |-> Covariance(asm.final_index, idx.names, asm.matrix,
                                      Some(zai),
                                      IF "temperature" \in DOMAIN attrs
                                      THEN attrs.temperature ELSE None,
                                      IF "err" \in DOMAIN attrs
                                      THEN attrs.err ELSE None)]

-----------------------------------------------------------------------------
(* CovarianceSuite.from_dict *)

\* A plain DataFrame: row keys, column keys, the names of the key fields and
\* the cell values.
DataFrame(index, columns, names, values) ==
    [index |-> index, columns |-> columns, names |-> names, values |-> values]

EmptyFrame == DataFrame(<<>>, <<>>, <<>>, <<>>)

suite_names == <<"ZAI", "MT", "E_min_eV", "E_max_eV">>

\* sorted(items.keys())
RECURSIVE SortedSeq(_)
SortedSeq(S) ==
    IF S = {} THEN <<>>
    ELSE LET m == CHOOSE x \in S : \A y \in S : x <= y
         IN  <<m>> \o SortedSeq(S \ {m})

\* [(zai,) + tup for tup in cov.index]
PrependZai(zai, index) == [p \in DOMAIN index |-> <<zai>> \o index[p]]

\* The list parts: one frame per nuclide, ascending ZAI, rows and columns
\* relabelled with the ZAI in front.
Parts(its) ==
    [k \in DOMAIN SortedSeq(DOMAIN its) |->
        LET zai == SortedSeq(DOMAIN its)[k]
        IN  [index |-> PrependZai(zai, its[zai].index),
             values |-> its[zai].values]]

\* Keys of a sequence without repetition, first occurrence first.
RECURSIVE Unique(_)
Unique(s) ==
    IF s = <<>> THEN <<>>
    ELSE LET front == Unique(SubSeq(s, 1, Len(s) - 1))
         IN  IF s[Len(s)] \in SeqToSet(front) THEN front
             ELSE Append(front, s[Len(s)])

RECURSIVE Flatten(_)
Flatten(ss) == IF ss = <<>> THEN <<>> ELSE Head(ss) \o Flatten(Tail(ss))

\* Which part, and which of its columns, the c-th concatenated column is.
RECURSIVE ColumnOwner(_, _, _)
ColumnOwner(parts, k, c) ==
    IF c <= Len(parts[k].index) THEN [part |-> k, pos |-> c]
    ELSE ColumnOwner(parts, k + 1, c - Len(parts[k].index))

\* A concatenation that keeps only the row keys every part has (join="inner").
Concat_InnerJoin(parts) ==
    LET rows == SelectSeq(Unique(Flatten([k \in DOMAIN parts |-> parts[k].index])),
                          LAMBDA key : \A k \in DOMAIN parts :
                                          key \in SeqToSet(parts[k].index))
        cols == Flatten([k \in DOMAIN parts |-> parts[k].index])
        cell(r, c) ==
            LET o == ColumnOwner(parts, 1, c)
                own == parts[o.part]
            IN  Some(own.values[CHOOSE p \in DOMAIN own.index :
                                    own.index[p] = rows[r]][o.pos])
    IN  [index |-> rows, columns |-> cols,
         values |-> [r \in DOMAIN rows |-> [c \in DOMAIN cols |-> cell(r, c)]]]

\* pd.concat(parts, axis=1): the rows are the union of the parts' row keys,
\* the columns are the parts' columns one after the other; a cell whose row
\* key the column's part does not have is missing (NaN).
Concat(parts) ==
    LET rows == Unique(Flatten([k \in DOMAIN parts |-> parts[k].index]))
        cols == Flatten([k \in DOMAIN parts |-> parts[k].index])
        cell(r, c) ==
            LET o == ColumnOwner(parts, 1, c)
                own == parts[o.part]
            IN  IF \E p \in DOMAIN own.index : own.index[p] = rows[r]
                THEN Some(own.values[CHOOSE p \in DOMAIN own.index :
                                        own.index[p] = rows[r]][o.pos])
                ELSE None
    IN  [index |-> rows, columns |-> cols,
         values |-> [r \in DOMAIN rows |-> [c \in DOMAIN cols |-> cell(r, c)]]]

\* DataFrame.fillna(v) on cells that may be missing.
fillna(values, v) ==
    [r \in DOMAIN values |-> [c \in DOMAIN values[r] |->
        IF values[r][c] = None THEN v ELSE values[r][c][1]]]

\* Lexicographic order of key tuples of one length.
LexLess(a, b) ==
    \E i \in DOMAIN a : (\A j \in 1..(i - 1) : a[j] = b[j]) /\ a[i] < b[i]

\* The positions of keys in ascending (stable) order.
SortPerm(keys) ==
    LET rank(p) == 1 + Cardinality({q \in DOMAIN keys :
                        LexLess(keys[q], keys[p]) \/ (keys[q] = keys[p] /\ q < p)})
    IN  [k \in DOMAIN keys |-> CHOOSE p \in DOMAIN keys : rank(p) = k]

\* The rows left in the order the concatenation produced.
sort_index_rows_Unsorted(df) == df

\* df.sort_index(axis=0): rows reordered, each with its cells.
sort_index_rows(df) ==
    LET perm == SortPerm(df.index)
    IN  [df EXCEPT !.index = [k \in DOMAIN perm |-> df.index[perm[k]]],
                   !.values = [k \in DOMAIN perm |-> df.values[perm[k]]]]

\* The column labels sorted while the cells stay where they were.
sort_index_columns_LabelsOnly(df) ==
    LET perm == SortPerm(df.columns)
    IN  [df EXCEPT !.columns = [k \in DOMAIN perm |-> df.columns[perm[k]]]]

\* df.sort_index(axis=1): columns reordered, each with its cells.
sort_index_columns(df) ==
    LET perm == SortPerm(df.columns)
    IN  [df EXCEPT !.columns = [k \in DOMAIN perm |-> df.columns[perm[k]]],
                   !.values = [r \in DOMAIN df.values |->
                                 [k \in DOMAIN perm |-> df.values[r][perm[k]]]]]

from_dict(its) ==
    IF DOMAIN its = {}
    THEN [status |-> "ok", matrix |-> EmptyFrame]
    ELSE IF \E z \in DOMAIN its : \E p \in DOMAIN its[z].index :
                Len(its[z].index[p]) + 1 # Len(suite_names)
    THEN \* from_tuples: the tuples do not have as many fields as names
         [status |-> "ValueError", matrix |-> EmptyFrame]
    ELSE LET joined == Concat(Parts(its))
             global_matrix == DataFrame(joined.index, joined.columns, suite_names,
                                        fillna(joined.values, 0))
         IN  [status |-> "ok",
              matrix |-> sort_index_columns(sort_index_rows(global_matrix))]

-----------------------------------------------------------------------------
(* Key names.  A key name is text; it is modelled by what the code does to *)
(* it: split("/") into segments, and split("_") of a segment into tokens.  *)
(* A token is a word followed by decimal digits, either possibly empty.    *)

Word(w) == [word |-> w, num |-> <<>>]
Num(digits) == [word |-> "", num |-> digits]

\* str(n) for n >= 0: the decimal digits, most significant first.
RECURSIVE Digits(_)
Digits(n) == IF n < 10 THEN <<n>> ELSE Append(Digits(n \div 10), n % 10)

\* int(token): the value of a token made of digits only.
IsNumeric(tok) == tok.word = "" /\ tok.num # <<>>

RECURSIVE ParseInt(_)
ParseInt(digits) ==
    IF digits = <<>> THEN 0
    ELSE 10 * ParseInt(SubSeq(digits, 1, Len(digits) - 1)) + digits[Len(digits)]

\* The pathname store.keys() lists for a key, as key.split("/") sees it:
\* "/zai_<zai>/covariances/data", "/zai_<zai>/covariances_index/level_<i>",
\* "/zai_<zai>/covariances_index/values", "/zai_<zai>/part_<n>/data".
KeyPath(k) ==
    << <<Word("")>>,
       <<Word("zai"), Num(Digits(k.zai))>>,
       IF k.node = "data" THEN <<Word("covariances")>>
       ELSE IF k.node = "part" THEN <<Word("part"), Num(Digits(k.level))>>
       ELSE <<Word("covariances"), Word("index")>>,
       IF k.node \in {"data", "part"} THEN <<Word("data")>>
       ELSE IF k.node = "level" THEN <<Word("level"), Num(Digits(k.level))>>
       ELSE <<Word("values")>> >>

\* key.startswith("/zai_")
StartsWithZai(path) ==
    /\ Len(path) >= 2
    /\ path[1] = <<Word("")>>
    /\ Len(path[2]) >= 2
    /\ path[2][1] = Word("zai")

\* store.keys(): the pathnames of the nodes present, groups walked in name
\* order (nuclide, then covariances before covariances_index before part_<n>,
\* then the node).
KeyOrder(k) ==
    <<k.zai, IF k.node = "data" THEN 0 ELSE IF k.node = "part" THEN 2 ELSE 1,
      IF k.node = "values" THEN 99 ELSE k.level>>

RECURSIVE SortKeys(_)
SortKeys(K) ==
    IF K = {} THEN <<>>
    ELSE LET m == CHOOSE k \in K :
                    \A o \in K \ {k} : LexLess(KeyOrder(k), KeyOrder(o))
         IN  <<m>> \o SortKeys(K \ {m})

StoreKeys(st) ==
    [i \in DOMAIN SortKeys(DOMAIN st) |-> KeyPath(SortKeys(DOMAIN st)[i])]

-----------------------------------------------------------------------------
(* CovarianceSuite.from_hdf5 *)

\* A ZAI allow-list: none given, or the set given.
AllZais == [given |-> FALSE, zais |-> {}]
OnlyZais(zs) == [given |-> TRUE, zais |-> zs]

\* The loop over zai_keys: the nuclide is read out of each key name, skipped
\* when filtered out, and loaded otherwise.  Any exception ends the call.
RECURSIVE SuiteLoop(_, _, _, _, _)
SuiteLoop(st, zai_keys, zais, mts, covs) ==
    IF zai_keys = <<>> THEN [status |-> "ok", covs |-> covs]
    ELSE LET path == Head(zai_keys)
         IN  IF Len(path) < 3 \/ Len(path[3]) < 2
             THEN \* list index out of range
                  [status |-> "IndexError", covs |-> covs]
             ELSE IF ~IsNumeric(path[3][2])
             THEN \* invalid literal for int()
                  [status |-> "ValueError", covs |-> covs]
             ELSE LET zai == ParseInt(path[3][2].num)
                      loaded == from_hdf5(st, zai, mts)
                  IN  IF zais.given /\ zai \notin zais.zais
                      THEN SuiteLoop(st, Tail(zai_keys), zais, mts, covs)
                      ELSE IF loaded.status # "ok"
                      THEN [status |-> loaded.status, covs |-> covs]
                      ELSE SuiteLoop(st, Tail(zai_keys), zais, mts,
                                     (zai :> loaded.cov) @@ covs)

suite_from_hdf5(st, zais, mts) ==
    LET zai_keys == SelectSeq(StoreKeys(st), StartsWithZai)
        looped == SuiteLoop(st, zai_keys, zais, mts, [z \in {} |-> 0])
    IN  IF looped.status # "ok"
        THEN [status |-> looped.status, matrix |-> EmptyFrame]
        ELSE from_dict(looped.covs)

-----------------------------------------------------------------------------
(* The persistence state machine: to_hdf5, from_hdf5 and the suite load on *)
(* one store file.                                                         *)

\* The keys of a nuclide's grid: (MT, E_min, E_max).
KeyGrid == << <<102, 1, 10>>, <<18, 1, 10>>, <<102, 10, 100>> >>

\* The entries of the matrices persisted and assembled: zero and a non-zero
\* value.
Values == {0, 1}

\* The symmetric n x n matrices with entries in Values.
SymmetricValues(n) ==
    {v \in [1..n -> [1..n -> Values]] : IsSymmetric(v)}

\* The Covariance objects handed to to_hdf5: for each size up to MaxN the
\* first keys of the grid as index, any symmetric values, a zai set.
StoreMatrices ==
    UNION {{Covariance(SubSeq(KeyGrid, 1, n), standard_names, v, Some(z), None, None) :
                v \in SymmetricValues(n), z \in ZAIs} : n \in 0..MaxN}

MtsFilters == {NoFilter, Filter({18}), Filter({2}), Filter({18, 102})}

ZaiFilters == {AllZais, OnlyZais({922350})}

NoRes ==
    [op |-> "none", zai |-> 0, mts |-> NoFilter,
     zais |-> AllZais, status |-> "ok", cov |-> EmptyCovariance,
     matrix |-> EmptyFrame, self |-> 0, ref |-> None, title |-> ""]

\* No frame object, no open handle, no operation in progress, no benchmark.
Idle ==
    [op |-> "none", stage |-> "idle", zai |-> 0, mts |-> NoFilter, zais |-> AllZais,
     self |-> EmptyCovariance, handle |-> 0, path |-> "none", outcome |-> NoRes,
     keys |-> <<>>, covs |-> <<>>, inner |-> 0]

InitOthers ==
    /\ heap = <<>>
    /\ handles = {}
    /\ pc = Idle
    /\ benchmarks = <<>>

Init ==
    /\ store = EmptyStore
    /\ persisted = [z \in ZAIs |-> None]
    /\ nputs = 0
    /\ items = [z \in {} |-> 0]
    /\ cov = EmptyCovariance
    /\ res = NoRes
    /\ InitOthers

ToHdf5(self) ==
    /\ nputs < MaxPuts
    /\ LET r == to_hdf5(store, self)
       IN  /\ store' = r.store
           /\ persisted' = [persisted EXCEPT ![self.zai[1]] =
                              Some([cov |-> self, status |-> r.status])]
           /\ res' = [NoRes EXCEPT !.op = "to_hdf5", !.zai = self.zai[1],
                                   !.status = r.status]
    /\ nputs' = nputs + 1
    /\ UNCHANGED <<items, cov, others>>

FromHdf5(zai, mts) ==
    /\ LET r == from_hdf5(store, zai, mts)
       IN  res' = [NoRes EXCEPT !.op = "from_hdf5", !.zai = zai, !.mts = mts,
                                !.status = r.status, !.cov = r.cov]
    /\ UNCHANGED <<store, persisted, nputs, items, cov, others>>

SuiteFromHdf5(zais, mts) ==
    /\ LET r == suite_from_hdf5(store, zais, mts)
       IN  res' = [NoRes EXCEPT !.op = "suite_from_hdf5", !.zais = zais,
                                !.mts = mts, !.status = r.status,
                                !.matrix = r.matrix]
    /\ UNCHANGED <<store, persisted, nputs, items, cov, others>>

Next ==
    \/ \E self \in StoreMatrices : ToHdf5(self)
    \/ \E zai \in ZAIs, mts \in MtsFilters : FromHdf5(zai, mts)
    \/ \E zais \in ZaiFilters, mts \in MtsFilters : SuiteFromHdf5(zais, mts)

Spec == Init /\ [][Next]_vars

-----------------------------------------------------------------------------
(* Suite assembly as a function of its input: Init draws the map, FromDict *)
(* applies CovarianceSuite.from_dict to it.                                *)

\* The constituents: the first keys of the grid as index, symmetric values.
SuiteMatrices(z) ==
    UNION {{Covariance(SubSeq(KeyGrid, 1, n), standard_names, v, Some(z), None, None) :
                v \in SymmetricValues(n)} : n \in 0..SuiteMaxN}

\* The maps from some of the nuclides to a constituent each.
ItemMaps ==
    UNION {{m \in [S -> UNION {SuiteMatrices(z) : z \in S}] :
                \A z \in S : m[z] \in SuiteMatrices(z)} : S \in SUBSET ZAIs}

InitSuite ==
    /\ store = EmptyStore
    /\ persisted = [z \in ZAIs |-> None]
    /\ nputs = 0
    /\ items \in ItemMaps
    /\ cov = EmptyCovariance
    /\ res = NoRes
    /\ InitOthers

FromDict ==
    /\ LET r == from_dict(items)
       IN  res' = [NoRes EXCEPT !.op = "from_dict", !.status = r.status,
                                !.matrix = r.matrix]
    /\ UNCHANGED <<store, persisted, nputs, items, cov, others>>

NextSuite == FromDict

SpecSuite == InitSuite /\ [][NextSuite]_vars

-----------------------------------------------------------------------------
(* Binary floating point, round to nearest even, Prec significand bits and *)
(* an unbounded exponent: a number is m * 2^e with m = 0 or                *)
(* 2^(Prec-1) <= |m| < 2^Prec, or it is NaN or an infinity (m its sign).   *)

RECURSIVE Pow2(_)
Pow2(k) == IF k <= 0 THEN 1 ELSE 2 * Pow2(k - 1)

Abs(x) == IF x < 0 THEN -x ELSE x
Sign(x) == IF x < 0 THEN -1 ELSE 1

FNum(m, e) == [kind |-> "num", m |-> m, e |-> e]
FZero == FNum(0, 0)
FNaN == [kind |-> "nan", m |-> 0, e |-> 0]
FInf(sign) == [kind |-> "inf", m |-> sign, e |-> 0]

\* The float nearest to (num / den) * 2^e for integers num > 0, den > 0.
RECURSIVE RoundPos(_, _, _)
RoundPos(num, den, e) ==
    IF num >= den * Pow2(Prec) THEN RoundPos(num, 2 * den, e + 1)
    ELSE IF num < den * Pow2(Prec - 1) THEN RoundPos(2 * num, den, e - 1)
    ELSE LET q == num \div den
             r == num % den
             up == (2 * r > den) \/ (2 * r = den /\ q % 2 = 1)
         IN  IF ~up THEN FNum(q, e)
             ELSE IF q + 1 = Pow2(Prec) THEN FNum(Pow2(Prec - 1), e + 1)
             ELSE FNum(q + 1, e)

\* The float of an integer.
FromInt(k) ==
    IF k = 0 THEN FZero
    ELSE LET f == RoundPos(Abs(k), 1, 0) IN FNum(Sign(k) * f.m, f.e)

\* floor(sqrt(n)) for n >= 0.
RECURSIVE ISqrt(_)
ISqrt(n) ==
    IF n < 2 THEN n
    ELSE LET r == 2 * ISqrt(n \div 4)
         IN  IF (r + 1) * (r + 1) <= n THEN r + 1 ELSE r

\* np.sqrt: correctly rounded; NaN for a negative number.  The radicand is
\* scaled by an even power of two to an integer T whose root has two bits
\* more than the significand; a root that is not exact adds a sticky half.
FSqrt(x) ==
    IF x.kind = "nan" THEN FNaN
    ELSE IF x.kind = "inf" THEN (IF x.m > 0 THEN x ELSE FNaN)
    ELSE IF x.m = 0 THEN FZero
    ELSE IF x.m < 0 THEN FNaN
    ELSE LET k == Prec + 2 + Abs(x.e)
             T == x.m * Pow2(x.e + 2 * k)
             s == ISqrt(T)
             sticky == IF s * s = T THEN 0 ELSE 1
         IN  RoundPos(2 * s + sticky, 2, -k)

\* a * b
FMul(a, b) ==
    IF a.kind = "nan" \/ b.kind = "nan" THEN FNaN
    ELSE IF a.kind = "inf" \/ b.kind = "inf"
    THEN (IF a.m = 0 \/ b.m = 0 THEN FNaN ELSE FInf(Sign(a.m) * Sign(b.m)))
    ELSE IF a.m = 0 \/ b.m = 0 THEN FZero
    ELSE LET f == RoundPos(Abs(a.m) * Abs(b.m), 1, a.e + b.e)
         IN  FNum(Sign(a.m) * Sign(b.m) * f.m, f.e)

\* a / b: x / 0 is an infinity, 0 / 0 is NaN.
FDiv(a, b) ==
    IF a.kind = "nan" \/ b.kind = "nan" THEN FNaN
    ELSE IF a.kind = "inf"
    THEN (IF b.kind = "inf" THEN FNaN ELSE FInf(Sign(a.m) * Sign(b.m)))
    ELSE IF b.kind = "inf" THEN FZero
    ELSE IF b.m = 0 THEN (IF a.m = 0 THEN FNaN ELSE FInf(Sign(a.m)))
    ELSE IF a.m = 0 THEN FZero
    ELSE LET f == RoundPos(Abs(a.m), Abs(b.m), a.e - b.e)
         IN  FNum(Sign(a.m) * Sign(b.m) * f.m, f.e)

-----------------------------------------------------------------------------
(* Covariance.correlation and CovarianceSuite.get_correlation_matrix *)

\* The standard deviations without the replacement of zeros.
GuardedStd_Unguarded(values) == [i \in DOMAIN values |-> FSqrt(values[i][i])]

\* diag = np.sqrt(np.diag(values)); diag[diag == 0] = 1.0
GuardedStd(values) ==
    [i \in DOMAIN values |->
        IF FSqrt(values[i][i]) = FZero THEN FromInt(1) ELSE FSqrt(values[i][i])]

\* A denominator that holds the row's standard deviation only.
Outer_RowOnly(diag) == [i \in DOMAIN diag |-> [j \in DOMAIN diag |-> diag[i]]]

\* np.outer(diag, diag)
Outer(diag) == [i \in DOMAIN diag |-> [j \in DOMAIN diag |-> FMul(diag[i], diag[j])]]

\* values / outer_std, element by element
Divide(values, outer_std) ==
    [i \in DOMAIN values |-> [j \in DOMAIN values[i] |->
        FDiv(values[i][j], outer_std[i][j])]]

\* .fillna(0): NaN becomes 0, everything else stays.
FillNaN(values) ==
    [i \in DOMAIN values |-> [j \in DOMAIN values[i] |->
        IF values[i][j].kind = "nan" THEN FZero ELSE values[i][j]]]

correlation(self) ==
    LET diag == GuardedStd(self.values)
        corr_values == Divide(self.values, Outer(diag))
    IN  DataFrame(self.index, self.columns, self.names, FillNaN(corr_values))

get_correlation_matrix(matrix) ==
    LET diag == GuardedStd(matrix.values)
        corr == Divide(matrix.values, Outer(diag))
    IN  DataFrame(matrix.index, matrix.columns, matrix.names, FillNaN(corr))

-----------------------------------------------------------------------------
(* Correlation as a function of its input: Init draws a symmetric matrix   *)
(* with a non-negative diagonal, the actions derive its correlation.       *)

\* Variances and covariances the inputs are made of.
Variances == {0, 1, 2, 3}
Covariances == {-3, 0, 1}

\* The symmetric n x n matrices with a variance at each diagonal place and
\* a covariance at each other place, as floats.
CorrValues(n) ==
    {[i \in 1..n |-> [j \in 1..n |->
        FromInt(IF i = j THEN d[i] ELSE IF i > j THEN o[<<i, j>>] ELSE o[<<j, i>>])]] :
        d \in [1..n -> Variances],
        o \in [{<<i, j>> \in (1..n) \X (1..n) : i > j} -> Covariances]}

CorrMatrices ==
    UNION {{Covariance(SubSeq(KeyGrid, 1, n), standard_names, v, Some(922350), None, None) :
                v \in CorrValues(n)} : n \in {m \in 0..CorrMaxN : m <= Len(KeyGrid)}}

InitCorr ==
    /\ store = EmptyStore
    /\ persisted = [z \in ZAIs |-> None]
    /\ nputs = 0
    /\ items = [z \in {} |-> 0]
    /\ cov \in CorrMatrices
    /\ res = NoRes
    /\ InitOthers

Correlation ==
    /\ res' = [NoRes EXCEPT !.op = "correlation", !.matrix = correlation(cov)]
    /\ UNCHANGED <<store, persisted, nputs, items, cov, others>>

\* The suite wraps the matrix as from_df does.
GetCorrelationMatrix ==
    /\ res' = [NoRes EXCEPT !.op = "get_correlation_matrix",
                            !.matrix = get_correlation_matrix(cov)]
    /\ UNCHANGED <<store, persisted, nputs, items, cov, others>>

NextCorr == Correlation \/ GetCorrelationMatrix

SpecCorr == InitCorr /\ [][NextCorr]_vars

-----------------------------------------------------------------------------
(* Claims about persistence, checked under Spec. *)

\* The block of the nuclide last loaded is in the store.
BlockStored(st, z) == DataKey(z) \in DOMAIN st

\* The index the store holds for a nuclide's block.
StoredIndex(st, z) == reconstruct_index(st, z, st[DataKey(z)].attrs)

\* The 1-based positions of an index whose MT is among the codes, ascending.
KeptPositions(index, names, codes) ==
    SortedSeq({p \in DOMAIN index : index[p][LevelOf(names, "MT")] \in codes})

\* The sum of the stored values at 0-based (row, col).
StoredValueAt(rows, r, c) ==
    SumSeq([k \in DOMAIN SelectSeq(rows, LAMBDA t : t.row = r /\ t.col = c) |->
              SelectSeq(rows, LAMBDA t : t.row = r /\ t.col = c)[k].value])

SameFrame(a, b) ==
    /\ a.index = b.index
    /\ a.columns = b.columns
    /\ a.values = b.values

\* C1: a symmetric matrix M with the 3-level index (MT, E_min, E_max) and a
\* zai, persisted by to_hdf5 (which returned) and loaded back by from_hdf5
\* with the same zai and no MT filter, comes back equal to M: same values at
\* every (i, j), same row and column labels in the same order.
C1_RoundTrip ==
    (/\ res.op = "from_hdf5"
     /\ ~res.mts.given
     /\ persisted[res.zai] # None
     /\ persisted[res.zai][1].status = "ok"
     /\ persisted[res.zai][1].cov.names = standard_names
     /\ IsSymmetric(persisted[res.zai][1].cov.values))
    => (/\ res.status = "ok"
        /\ SameFrame(res.cov, persisted[res.zai][1].cov)
        /\ res.cov.names = persisted[res.zai][1].cov.names)

\* C3: a load with an MT allow-list returns the submatrix of the unfiltered
\* load: its index is the stored index positions whose MT is allowed, in
\* stored order and renumbered from 0; its entry at two surviving positions
\* is the unfiltered entry there; and exactly the stored triples whose row
\* and column both survive contribute to it.
C3_FilterIsSubmatrix ==
    (/\ res.op = "from_hdf5"
     /\ res.mts.given
     /\ res.status = "ok"
     /\ BlockStored(store, res.zai))
    => LET stored == StoredIndex(store, res.zai)
           K == KeptPositions(stored.index, stored.names, res.mts.codes)
           u == from_hdf5(store, res.zai, NoFilter)
           rows == store[DataKey(res.zai)].rows
       IN  /\ res.cov.index = [k \in DOMAIN K |-> stored.index[K[k]]]
           /\ res.cov.columns = res.cov.index
           /\ Len(res.cov.values) = Len(K)
           /\ u.status = "ok" =>
                \A a \in DOMAIN K : \A b \in DOMAIN K :
                    res.cov.values[a][b] = u.cov.values[K[a]][K[b]]
           /\ \A a \in DOMAIN K : \A b \in 1..a :
                    res.cov.values[a][b] = StoredValueAt(rows, K[a] - 1, K[b] - 1)

\* C3 witness: a filtered load that dropped the first stored position, kept
\* a later one holding a stored value, and discarded a stored triple.
C3_Witness ==
    /\ res.op = "from_hdf5"
    /\ res.mts.given
    /\ res.status = "ok"
    /\ BlockStored(store, res.zai)
    /\ from_hdf5(store, res.zai, NoFilter).status = "ok"
    /\ Len(res.cov.index) = 1
    /\ Len(StoredIndex(store, res.zai).index) = 2
    /\ res.cov.index[1] = StoredIndex(store, res.zai).index[2]
    /\ res.cov.values[1][1] # 0
    /\ \E k \in DOMAIN store[DataKey(res.zai)].rows :
           store[DataKey(res.zai)].rows[k].col = 0

\* C5: the matrix a load returns is symmetric, with any MT filter or none.
C5_LoadedSymmetric ==
    (res.op = "from_hdf5" /\ res.status = "ok") => IsSymmetric(res.cov.values)

\* C5 witness: a returned 2 x 2 matrix with a non-zero off-diagonal entry.
C5_Witness ==
    /\ res.op = "from_hdf5"
    /\ res.status = "ok"
    /\ Len(res.cov.values) = 2
    /\ res.cov.values[1][2] # 0

\* C6: a load for a zai whose data key is absent from the store returns an
\* empty Covariance (0 rows, 0 columns) without raising, and the store is
\* left as it was.
C6_MissingKeyEmpty ==
    [][(res'.op = "from_hdf5" /\ ~BlockStored(store, res'.zai))
        => (/\ res'.status = "ok"
            /\ res'.cov.index = <<>>
            /\ res'.cov.columns = <<>>
            /\ res'.cov.values = <<>>
            /\ store' = store)]_vars

\* C6 witness: a load of an absent nuclide from a store that holds keys.
C6_Witness ==
    /\ res.op = "from_hdf5"
    /\ ~BlockStored(store, res.zai)
    /\ DOMAIN store # {}
    /\ res.status = "ok"

\* The MT codes the stored index of a nuclide holds.
StoredMTs(st, z) ==
    IF LevelKey(z, 0) \in DOMAIN st THEN SeqToSet(st[LevelKey(z, 0)].rows) ELSE {}

\* C7: a load with an MT filter none of whose codes occurs in the stored
\* index returns an empty matrix (0 rows, 0 columns) without raising.
C7_DisjointFilterEmpty ==
    (/\ res.op = "from_hdf5"
     /\ res.mts.given
     /\ res.mts.codes \cap StoredMTs(store, res.zai) = {})
    => (/\ res.status = "ok"
        /\ res.cov.index = <<>>
        /\ res.cov.columns = <<>>
        /\ res.cov.values = <<>>)

\* C7 witness: a disjoint filter applied to a stored block that has rows
\* and triples.
C7_Witness ==
    /\ res.op = "from_hdf5"
    /\ res.mts.given
    /\ BlockStored(store, res.zai)
    /\ StoredMTs(store, res.zai) # {}
    /\ res.mts.codes \cap StoredMTs(store, res.zai) = {}
    /\ res.status = "ok"
    /\ res.cov.values = <<>>

\* The nuclides that have a block in the store.
StoredZais(st) == {z \in ZAIs : BlockStored(st, z)}

\* C4: the suite load of a store holding blocks written by to_hdf5 completes
\* without error and returns what from_dict returns for the map from each
\* stored nuclide (each allowed one, when a ZAI list is given) to its
\* from_hdf5 load with the same MT filter.
C4_SuiteLoadIsFromDict ==
    (/\ res.op = "suite_from_hdf5"
     /\ \A z \in ZAIs : persisted[z] # None => persisted[z][1].status = "ok"
     /\ \A z \in StoredZais(store) : from_hdf5(store, z, res.mts).status = "ok")
    => LET S == {z \in StoredZais(store) : res.zais.given => z \in res.zais.zais}
           expected == from_dict([z \in S |-> from_hdf5(store, z, res.mts).cov])
       IN  /\ res.status = "ok"
           /\ res.matrix = expected.matrix

-----------------------------------------------------------------------------
(* Claims about suite assembly, checked under SpecSuite. *)

\* The position of a key in an index.
PositionOf(index, key) == CHOOSE p \in DOMAIN index : index[p] = key

\* C2: for a map of nuclide matrices with distinct ZAI keys and sizes
\* n_1 .. n_k, from_dict yields a matrix of size (n_1 + .. + n_k) squared;
\* every entry whose row ZAI differs from its column ZAI is 0; every entry
\* whose row and column carry the same ZAI z is the entry of items[z] at the
\* row's and the column's (MT, E_min, E_max) keys.
C2_BlockDiagonal ==
    (res.op = "from_dict" /\ res.status = "ok") =>
    LET m == res.matrix
        zs == SortedSeq(DOMAIN items)
        total == SumSeq([k \in DOMAIN zs |-> Len(items[zs[k]].index)])
    IN  /\ Len(m.index) = total
        /\ Len(m.columns) = total
        /\ Len(m.values) = total
        /\ \A r \in DOMAIN m.values : Len(m.values[r]) = total
        /\ \A r \in DOMAIN m.index : \A c \in DOMAIN m.columns :
              IF m.index[r][1] # m.columns[c][1]
              THEN m.values[r][c] = 0
              ELSE LET z == m.index[r][1]
                   IN  /\ z \in DOMAIN items
                       /\ Tail(m.index[r]) \in SeqToSet(items[z].index)
                       /\ Tail(m.columns[c]) \in SeqToSet(items[z].index)
                       /\ m.values[r][c] =
                            items[z].values[PositionOf(items[z].index, Tail(m.index[r]))]
                                           [PositionOf(items[z].index, Tail(m.columns[c]))]

\* C2 witness: two nuclides of two rows each, assembled into a 4 x 4 matrix
\* that holds a non-zero off-diagonal entry inside a block.
C2_Witness ==
    /\ res.op = "from_dict"
    /\ res.status = "ok"
    /\ Cardinality(DOMAIN items) = 2
    /\ \A z \in DOMAIN items : Len(items[z].index) = 2
    /\ Len(res.matrix.index) = 4
    /\ res.matrix.values[1][2] # 0
    /\ res.matrix.values[1][1] # res.matrix.values[2][2]

-----------------------------------------------------------------------------
(* Claims about correlation, checked under SpecCorr. *)

IsPositive(f) == f.kind = "num" /\ f.m > 0
IsFinite(f) == f.kind = "num"
AllPositiveDiag(values) == \A i \in DOMAIN values : IsPositive(values[i][i])
ZeroDiagPositions(values) == {i \in DOMAIN values : values[i][i] = FZero}
NonNegativeDiag(values) ==
    \A i \in DOMAIN values : values[i][i] = FZero \/ IsPositive(values[i][i])

\* The result carries the input's labels and has the input's shape.
SameShapeAndLabels ==
    /\ res.matrix.index = cov.index
    /\ res.matrix.columns = cov.columns
    /\ res.matrix.names = cov.names
    /\ Len(res.matrix.values) = Len(cov.values)
    /\ \A i \in DOMAIN res.matrix.values :
            Len(res.matrix.values[i]) = Len(cov.values[i])

\* |f - 1| <= 4 * 2^(-Prec): within four units of roundoff of 1.
NearOne(f) ==
    /\ IsPositive(f)
    /\ f.e + Prec >= 0
    /\ Abs(f.m * Pow2(f.e + Prec) - Pow2(Prec)) <= 4

\* -1 <= f <= 1
InUnitInterval(f) ==
    /\ IsFinite(f)
    /\ IF f.e >= 0 THEN Abs(f.m) * Pow2(f.e) <= 1 ELSE Abs(f.m) <= Pow2(-f.e)

\* C8 as stated: for a covariance matrix whose diagonal entries are all
\* positive, correlation() returns a matrix of the same shape and labels
\* whose diagonal entries are all exactly 1.
C8_DiagonalExactlyOne ==
    (res.op = "correlation" /\ AllPositiveDiag(cov.values)) =>
        /\ SameShapeAndLabels
        /\ \A i \in DOMAIN cov.values : res.matrix.values[i][i] = FromInt(1)

\* C8 amended: for a covariance matrix whose diagonal entries are all
\* positive, correlation() returns a matrix of the same shape and labels
\* whose diagonal entries lie within four units of roundoff of 1, and are
\* exactly 1 wherever the rounded square root squares back to the variance.
C8_DiagonalNearOne ==
    (res.op = "correlation" /\ AllPositiveDiag(cov.values)) =>
        /\ SameShapeAndLabels
        /\ \A i \in DOMAIN cov.values :
            /\ NearOne(res.matrix.values[i][i])
            /\ FMul(FSqrt(cov.values[i][i]), FSqrt(cov.values[i][i])) = cov.values[i][i]
                    => res.matrix.values[i][i] = FromInt(1)

\* C8 witness: the correlation of a 2 x 2 matrix with a positive diagonal,
\* one diagonal entry of the result exactly 1 and the other one not.
C8_Witness ==
    /\ res.op = "correlation"
    /\ Len(cov.values) = 2
    /\ AllPositiveDiag(cov.values)
    /\ res.matrix.values[1][1] = FromInt(1)
    /\ res.matrix.values[2][2] # FromInt(1)

\* C9 as stated: for a covariance matrix with exactly one zero diagonal
\* entry, at index i, correlation() returns only finite values, and every
\* entry in row i and in column i of the result equals 0.
C9_ZeroVarianceRowIsZero ==
    (res.op = "correlation" /\ NonNegativeDiag(cov.values)
        /\ Cardinality(ZeroDiagPositions(cov.values)) = 1) =>
        /\ \A i, j \in DOMAIN cov.values : IsFinite(res.matrix.values[i][j])
        /\ \A i \in ZeroDiagPositions(cov.values) : \A j \in DOMAIN cov.values :
            /\ res.matrix.values[i][j] = FZero
            /\ res.matrix.values[j][i] = FZero

\* C9 amended: for a covariance matrix with exactly one zero diagonal
\* entry, at index i, correlation() returns only finite values; entry
\* (i, i) of the result is 0, and an entry in row i or column i is 0
\* wherever the covariance entry at that place is 0.
C9_ZeroVarianceFinite ==
    (res.op = "correlation" /\ NonNegativeDiag(cov.values)
        /\ Cardinality(ZeroDiagPositions(cov.values)) = 1) =>
        /\ \A i, j \in DOMAIN cov.values : IsFinite(res.matrix.values[i][j])
        /\ \A i \in ZeroDiagPositions(cov.values) : \A j \in DOMAIN cov.values :
            /\ cov.values[i][j] = FZero => res.matrix.values[i][j] = FZero
            /\ cov.values[j][i] = FZero => res.matrix.values[j][i] = FZero

\* C9 witness: the correlation of a 2 x 2 matrix whose first variance is 0,
\* whose second is positive and whose covariance entry is not 0.
C9_Witness ==
    /\ res.op = "correlation"
    /\ Len(cov.values) = 2
    /\ ZeroDiagPositions(cov.values) = {1}
    /\ IsPositive(cov.values[2][2])
    /\ cov.values[1][2] # FZero
    /\ res.matrix.values[1][1] = FZero
    /\ IsFinite(res.matrix.values[1][2])

\* C10: every entry of the matrix returned by correlation() and by
\* get_correlation_matrix() lies between -1 and 1 inclusive, for every
\* symmetric input matrix with a non-negative diagonal.
C10_WithinUnitInterval ==
    (res.op \in {"correlation", "get_correlation_matrix"}
        /\ IsSymmetric(cov.values) /\ NonNegativeDiag(cov.values)) =>
        \A i, j \in DOMAIN cov.values : InUnitInterval(res.matrix.values[i][j])
-----------------------------------------------------------------------------
(* Persistence of matrices whose index has any number of levels, with any  *)
(* level names and with a temperature: to_hdf5 writes one level table per  *)
(* index name, _reconstruct_index reads back the levels it finds.          *)

\* A key of L fields for reaction mt: the trailing fields are those of the
\* single-nuclide key, a nuclide id leads from 4 fields on.
KeyOfLevels(L, mt) ==
    CASE L = 1 -> <<mt>>
      [] L = 2 -> <<mt, 1>>
      [] L = 3 -> <<mt, 1, 10>>
      [] OTHER -> <<922350>> \o [i \in 1..(L - 4) |-> 33] \o <<mt, 1, 10>>

\* The names a caller gives those fields.
NamesOfLevels(L) ==
    CASE L = 1 -> <<"MT">>
      [] L = 2 -> <<"MT", "E_min">>
      [] L = 3 -> <<"MT", "E_min", "E_max">>
      [] OTHER -> <<"ZAI">> \o [i \in 1..(L - 4) |-> "MF"] \o <<"MT", "E_min", "E_max">>

\* An index whose levels carry no names.
Unnamed(L) == [i \in 1..L |-> "None"]

Temperatures == {None, Some(300)}

\* The matrices persisted: no row or one row, for nuclide 922350.
LevelMatrices ==
    UNION {{Covariance(idx, names, [r \in DOMAIN idx |-> [c \in DOMAIN idx |-> v]],
                       Some(922350), t, None) :
                names \in {NamesOfLevels(L), Unnamed(L)},
                idx \in {<<>>, <<KeyOfLevels(L, 18)>>},
                v \in Values, t \in Temperatures} : L \in 1..MaxLevels}

LevelFilters == {NoFilter, Filter({18})}

\* Covariance._reconstruct_index called on the block of a nuclide.
ReconstructIndex(zai) ==
    /\ DataKey(zai) \in DOMAIN store
    /\ LET idx == reconstruct_index(store, zai, store[DataKey(zai)].attrs)
       IN  res' = [NoRes EXCEPT !.op = "reconstruct_index", !.zai = zai,
                                !.status = idx.status,
                                !.cov = Covariance(idx.index, idx.names, <<>>,
                                                   None, None, None)]
    /\ UNCHANGED <<store, persisted, nputs, items, cov, others>>

NextLevels ==
    \/ \E self \in LevelMatrices : ToHdf5(self)
    \/ \E mts \in LevelFilters : FromHdf5(922350, mts)
    \/ ReconstructIndex(922350)

SpecLevels == Init /\ [][NextLevels]_vars

-----------------------------------------------------------------------------
(* Claims about index reconstruction and metadata, checked under           *)
(* SpecLevels.                                                             *)

\* The level tables _reconstruct_index finds for a stored block.
RecoveredLevels(st, z) ==
    GatherLevels(st, z, 0, Len(st[DataKey(z)].attrs.index_names))

SameLengths(levels) == \A i \in DOMAIN levels : Len(levels[i]) = Len(levels[1])

\* C11: _reconstruct_index names the recovered levels (MT, E_min, E_max)
\* when exactly 3 levels are recovered and (ZAI, MT, E_min, E_max) when
\* exactly 4 are, whatever index names were persisted with the block.
C11_CanonicalNames ==
    (res.op = "reconstruct_index" /\ SameLengths(RecoveredLevels(store, res.zai))) =>
        LET k == Len(RecoveredLevels(store, res.zai))
        IN  /\ k = 3 => /\ res.status = "ok"
                        /\ res.cov.names = <<"MT", "E_min", "E_max">>
            /\ k = 4 => /\ res.status = "ok"
                        /\ res.cov.names = <<"ZAI", "MT", "E_min", "E_max">>

\* C11 witness: three levels recovered from a block persisted without level
\* names, and named (MT, E_min, E_max).
C11_Witness ==
    /\ res.op = "reconstruct_index"
    /\ Len(RecoveredLevels(store, res.zai)) = 3
    /\ store[DataKey(res.zai)].attrs.index_names = Unnamed(3)
    /\ res.cov.names = standard_names
    /\ Len(res.cov.index) = 1

\* C12: for every number of index levels written for a block, one or more,
\* the reconstructed index has a level named MT, so the lookup of the MT
\* level by name succeeds.
C12_MTLevelNamed ==
    /\ (res.op = "reconstruct_index" /\ Len(RecoveredLevels(store, res.zai)) >= 1
            /\ res.status = "ok")
        => LevelOf(res.cov.names, "MT") # 0
    /\ (res.op = "from_hdf5" /\ res.mts.given) => res.status # "KeyError"

\* C13: index reconstruction never raises, whether the store holds fewer
\* level tables than the persisted index_names lists or any other number:
\* it returns an index of the levels found, named by the canonical rule.
C13_ReconstructNeverRaises ==
    res.op = "reconstruct_index" =>
        LET levels == RecoveredLevels(store, res.zai)
        IN  /\ res.status = "ok"
            /\ res.cov.names = CanonicalNames(Len(levels))
            /\ \A p \in DOMAIN res.cov.index : Len(res.cov.index[p]) = Len(levels)

\* C16: after to_hdf5 of an n x n matrix with zai z and temperature t the
\* stored block carries the attributes shape (n, n), the index names, zai z
\* and temperature t, and from_hdf5 for z returns an object whose zai is z
\* and whose temperature is t.
C16_MetadataRoundTrip ==
    /\ res.op = "to_hdf5" =>
        LET self == persisted[res.zai][1].cov
        IN  /\ res.status = "ok"
            /\ BlockStored(store, res.zai)
            /\ store[DataKey(res.zai)].attrs.shape = <<Len(self.values), Len(self.values)>>
            /\ store[DataKey(res.zai)].attrs.index_names = self.names
            /\ store[DataKey(res.zai)].attrs.zai = self.zai
            /\ store[DataKey(res.zai)].attrs.temperature = self.temperature
    /\ (res.op = "from_hdf5" /\ persisted[res.zai] # None) =>
            /\ res.status = "ok"
            /\ res.cov.zai = Some(res.zai)
            /\ res.cov.temperature = persisted[res.zai][1].cov.temperature
-----------------------------------------------------------------------------
(* Claims about the keys of an assembled suite, checked under SpecSuite. *)

\* a <= b in the lexicographic order of key tuples.
LexLeq(a, b) == a = b \/ LexLess(a, b)

\* C14: the matrix from_dict produces has its rows in ascending
\* lexicographic order of the key (ZAI, MT, E_min, E_max), and its sequence
\* of column keys is its sequence of row keys.
C14_RowsSortedColumnsSame ==
    (res.op = "from_dict" /\ res.status = "ok") =>
        /\ \A r \in DOMAIN res.matrix.index : \A q \in DOMAIN res.matrix.index :
                r < q => LexLeq(res.matrix.index[r], res.matrix.index[q])
        /\ res.matrix.columns = res.matrix.index

\* C14 witness: two nuclides whose own keys are not in ascending order,
\* assembled; the first row is the smallest key of the first nuclide, which
\* is not that nuclide's first key.
C14_Witness ==
    /\ res.op = "from_dict"
    /\ res.status = "ok"
    /\ DOMAIN items = ZAIs
    /\ \A z \in ZAIs : Len(items[z].index) = 2
    /\ res.matrix.index[1] = <<922350>> \o items[922350].index[2]
    /\ res.matrix.index[2] = <<922350>> \o items[922350].index[1]
    /\ res.matrix.index[3][1] = 922380

\* C15: every row and column key of the matrix from_dict produces is the
\* nuclide's map key followed by one of that nuclide's (MT, E_min, E_max)
\* keys, and the four index fields are named ZAI, MT, E_min, E_max in that
\* order.
C15_KeysAndNames ==
    (res.op = "from_dict" /\ res.status = "ok") =>
        /\ \A r \in DOMAIN res.matrix.index :
            /\ res.matrix.index[r][1] \in DOMAIN items
            /\ Tail(res.matrix.index[r]) \in SeqToSet(items[res.matrix.index[r][1]].index)
        /\ \A c \in DOMAIN res.matrix.columns :
            /\ res.matrix.columns[c][1] \in DOMAIN items
            /\ Tail(res.matrix.columns[c]) \in SeqToSet(items[res.matrix.columns[c][1]].index)
        /\ DOMAIN items # {} => res.matrix.names = <<"ZAI", "MT", "E_min", "E_max">>
-----------------------------------------------------------------------------
(* Frames as objects.  The heap is the sequence of the objects created so  *)
(* far, an object's identity is its position; an operation that returns a  *)
(* frame appends it, an assignment to an attribute of an object replaces   *)
(* that attribute in place.                                                *)

\* Covariance._metadata
_metadata == <<"zai", "temperature", "err">>

\* A result that receives no attribute from the object it derives from.
finalize_Nothing(result, other) == result

\* NDFrame.__finalize__(result, other): every attribute named by _metadata
\* is set on the result from the other object (None when it has none).
finalize(result, other) ==
    [f \in DOMAIN result |->
        IF f \in SeqToSet(_metadata) THEN other[f] ELSE result[f]]

\* Covariance._constructor applied to data: a Covariance without metadata.
constructor(index, columns, names, values) ==
    [index |-> index, columns |-> columns, names |-> names, values |-> values,
     zai |-> None, temperature |-> None, err |-> None]

\* The heap with a new object, and the new object's identity.
Alloc(h, obj) == [heap |-> Append(h, obj), ref |-> Len(h) + 1]

\* seq[lo:hi]
Slice(seq, lo, hi) == SubSeq(seq, lo + 1, Min2(hi, Len(seq)))

\* self.iloc[rlo:rhi, clo:chi]: the block as a new object of the same class,
\* finalized from self.
iloc(h, self, rlo, rhi, clo, chi) ==
    LET o == h[self]
        block == [r \in DOMAIN Slice(o.values, rlo, rhi) |->
                    Slice(Slice(o.values, rlo, rhi)[r], clo, chi)]
    IN  Alloc(h, finalize(constructor(Slice(o.index, rlo, rhi),
                                      Slice(o.columns, clo, chi),
                                      o.names, block), o))

\* A second name for the same object.
copy_Alias(h, id) == [heap |-> h, ref |-> id]

\* DataFrame.copy(): a new object with the same labels, values and metadata.
copy(h, id) ==
    Alloc(h, finalize(constructor(h[id].index, h[id].columns, h[id].names,
                                  h[id].values), h[id]))

\* The loop of from_dict over sorted(items.keys()): each constituent is
\* copied and the copy's index and columns are replaced.
RECURSIVE RelabelParts(_, _, _, _)
RelabelParts(h, its, zs, parts) ==
    IF zs = <<>> THEN [heap |-> h, parts |-> parts]
    ELSE LET c == copy(h, its[Head(zs)])
             new_index == PrependZai(Head(zs), c.heap[c.ref].index)
             h2 == [c.heap EXCEPT ![c.ref].index = new_index,
                                  ![c.ref].columns = new_index,
                                  ![c.ref].names = suite_names]
         IN  RelabelParts(h2, its, Tail(zs), Append(parts, c.ref))

\* CovarianceSuite.from_dict on objects: items maps a ZAI to an identity.
\* concat, fillna and each sort_index return a new frame.
from_dict_objects(h, its) ==
    IF DOMAIN its = {} THEN Alloc(h, EmptyFrame)
    ELSE LET r == RelabelParts(h, its, SortedSeq(DOMAIN its), <<>>)
             joined == Concat([k \in DOMAIN r.parts |->
                                 [index |-> r.heap[r.parts[k]].index,
                                  values |-> r.heap[r.parts[k]].values]])
             concatenated == DataFrame(joined.index, joined.columns, suite_names,
                                       joined.values)
             filled == [concatenated EXCEPT !.values = fillna(joined.values, FZero)]
             by_rows == sort_index_rows(filled)
         IN  Alloc(r.heap \o <<concatenated, filled, by_rows>>,
                   sort_index_columns(by_rows))

\* Covariance.correlation on objects: np.sqrt returns a new array, the
\* replacement of zeros writes into that array, the quotient and the frames
\* built from it are new objects.
correlation_objects(h, self) ==
    LET d == Alloc(h, [data |-> [i \in DOMAIN h[self].values |->
                                   FSqrt(h[self].values[i][i])]])
        h1 == [d.heap EXCEPT ![d.ref].data =
                  [i \in DOMAIN @ |-> IF @[i] = FZero THEN FromInt(1) ELSE @[i]]]
        outer_std == Alloc(h1, [data |-> Outer(h1[d.ref].data)])
        corr_values == Alloc(outer_std.heap,
                             [data |-> Divide(outer_std.heap[self].values,
                                              outer_std.heap[outer_std.ref].data)])
        frame == Alloc(corr_values.heap,
                       DataFrame(corr_values.heap[self].index,
                                 corr_values.heap[self].columns,
                                 corr_values.heap[self].names,
                                 corr_values.heap[corr_values.ref].data))
    IN  Alloc(frame.heap,
              [frame.heap[frame.ref] EXCEPT !.values = FillNaN(@)])
\* The values of the frame objects: one or two rows, a zero variance and a
\* covariance larger than the variances among them.
FrameValues ==
    {[i \in 1..Len(v) |-> [j \in 1..Len(v) |-> FromInt(v[i][j])]] :
        v \in {<< <<0>> >>, << <<2>> >>,
               << <<0, 1>>, <<1, 3>> >>, << <<2, -3>>, <<-3, 1>> >>}}

FrameObjects(z) ==
    {Covariance(SubSeq(KeyGrid, 1, Len(v)), standard_names, v, Some(z), t, None) :
        v \in FrameValues, t \in Temperatures}

\* The input objects, one per nuclide of a set, and the map handed to
\* from_dict.
InitFrame ==
    /\ store = EmptyStore
    /\ persisted = [z \in ZAIs |-> None]
    /\ nputs = 0
    /\ cov = EmptyCovariance
    /\ res = NoRes
    /\ handles = {}
    /\ pc = Idle
    /\ benchmarks = <<>>
    /\ \E S \in SUBSET ZAIs :
        /\ heap \in {h \in [1..Cardinality(S) -> UNION {FrameObjects(z) : z \in S}] :
                        \A k \in 1..Cardinality(S) : h[k].zai = Some(SortedSeq(S)[k])}
        /\ items = [z \in S |-> CHOOSE k \in 1..Cardinality(S) : SortedSeq(S)[k] = z]

\* One operation is applied to the inputs.
OnlyInputs == Len(heap) = Cardinality(DOMAIN items)

Iloc(self, rlo, rhi, clo, chi) ==
    /\ OnlyInputs
    /\ LET r == iloc(heap, self, rlo, rhi, clo, chi)
       IN  /\ heap' = r.heap
           /\ res' = [NoRes EXCEPT !.op = "iloc", !.self = self, !.ref = Some(r.ref)]
    /\ UNCHANGED <<store, persisted, nputs, items, cov, handles, pc, benchmarks>>

FromDictObjects ==
    /\ OnlyInputs
    /\ LET r == from_dict_objects(heap, items)
       IN  /\ heap' = r.heap
           /\ res' = [NoRes EXCEPT !.op = "from_dict", !.ref = Some(r.ref)]
    /\ UNCHANGED <<store, persisted, nputs, items, cov, handles, pc, benchmarks>>

CorrelationObject(self) ==
    /\ OnlyInputs
    /\ LET r == correlation_objects(heap, self)
       IN  /\ heap' = r.heap
           /\ res' = [NoRes EXCEPT !.op = "correlation", !.self = self,
                                   !.ref = Some(r.ref)]
    /\ UNCHANGED <<store, persisted, nputs, items, cov, handles, pc, benchmarks>>

NextFrame ==
    \/ \E self \in DOMAIN heap : \E rlo, clo \in 0..1 : \E rhi, chi \in 1..2 :
            Iloc(self, rlo, rhi, clo, chi)
    \/ FromDictObjects
    \/ \E self \in DOMAIN heap : CorrelationObject(self)

SpecFrame == InitFrame /\ [][NextFrame]_vars

-----------------------------------------------------------------------------
(* Claims about frames as objects, checked under SpecFrame. *)

IsCovariance(obj) == SeqToSet(_metadata) \subseteq DOMAIN obj

\* C17: selecting a sub-block of rows and columns of a Covariance by
\* positional slicing yields a Covariance that carries the zai of the
\* original, and leaves the original's metadata as it was.
C17_SliceKeepsMetadata ==
    [][res'.op = "iloc" =>
        /\ res'.ref[1] \notin DOMAIN heap
        /\ IsCovariance(heap'[res'.ref[1]])
        /\ heap'[res'.ref[1]].zai = heap[res'.self].zai
        /\ \A f \in SeqToSet(_metadata) : heap'[res'.self][f] = heap[res'.self][f]]_vars

\* C17 witness: a proper sub-block (one row of two) of the Covariance of
\* nuclide 922380, carrying that zai.
C17_Witness ==
    /\ res.op = "iloc"
    /\ Len(heap[res.self].index) = 2
    /\ Len(heap[res.ref[1]].index) = 1
    /\ heap[res.self].zai = Some(922380)
    /\ heap[res.ref[1]].zai = Some(922380)

\* C19: from_dict and correlation never modify their inputs: after the call
\* every input Covariance has the values, row labels, column labels and
\* metadata it had before, and the result is a new object.
C19_InputsUntouched ==
    [][res'.op \in {"from_dict", "correlation"} =>
        /\ \A id \in DOMAIN heap : heap'[id] = heap[id]
        /\ items' = items
        /\ res'.ref[1] \notin DOMAIN heap
        /\ res'.ref[1] \in DOMAIN heap']_vars

\* C19 witness: a suite assembled from two Covariance objects, its keys
\* prefixed, while the first input still has its 3-field keys.
C19_Witness ==
    /\ res.op = "from_dict"
    /\ DOMAIN items = ZAIs
    /\ Len(heap[res.ref[1]].index) >= 2
    /\ Len(heap[res.ref[1]].index[1]) = 4
    /\ Len(heap[items[922350]].index[1]) = 3
-----------------------------------------------------------------------------
(* The store operations step by step: each opens the file in a with        *)
(* statement (Open), runs the body of the statement (a Body action), and   *)
(* leaves the statement through HDFStore.__exit__ (Exit), whichever way    *)
(* the body ended.                                                         *)

\* The matrices written: none, one zero or one non-zero entry, one nuclide.
HandleMatrices ==
    {m \in StoreMatrices : Len(m.index) <= 1 /\ m.zai = Some(922350)}

\* The handle a with statement binds, and the mode it was opened in.
NewHandle(hs, mode) == [id |-> Cardinality(hs) + 1, mode |-> mode]

\* Handles left open when the body ends by raising.
ExitWith_OnReturnOnly(hs, h, path) == IF path = "raise" THEN hs ELSE hs \ {h}

\* HDFStore.__exit__: close(), on every way out of the with statement.
ExitWith(hs, h, path) == hs \ {h}

\* with pd.HDFStore(file_path, mode=...) as store:
Open(op, mode, self, zai, zais, mts) ==
    /\ pc.stage = "idle"
    /\ op = "to_hdf5" => nputs < MaxPuts
    /\ handles' = handles \cup {NewHandle(handles, mode)}
    /\ pc' = [Idle EXCEPT !.op = op, !.stage = "body", !.self = self, !.zai = zai,
                          !.zais = zais, !.mts = mts,
                          !.handle = NewHandle(handles, mode)]
    /\ UNCHANGED <<store, persisted, nputs, items, cov, res, heap, benchmarks>>

\* The body of to_hdf5: it ends by reaching its end or by raising.
BodyToHdf5 ==
    /\ pc.stage = "body" /\ pc.op = "to_hdf5"
    /\ LET r == to_hdf5(store, pc.self)
       IN  /\ store' = r.store
           /\ persisted' = [persisted EXCEPT ![pc.zai] =
                              Some([cov |-> pc.self, status |-> r.status])]
           /\ pc' = [pc EXCEPT !.stage = "exit",
                        !.path = IF r.status = "ok" THEN "return" ELSE "raise",
                        !.outcome = [NoRes EXCEPT !.op = "to_hdf5", !.zai = pc.zai,
                                                  !.status = r.status]]
    /\ nputs' = nputs + 1
    /\ UNCHANGED <<items, cov, res, heap, handles, benchmarks>>

\* The body of Covariance.from_hdf5: the early return for a missing key, the
\* return of the object, or an exception.
BodyFromHdf5 ==
    /\ pc.stage = "body" /\ pc.op = "from_hdf5"
    /\ LET r == from_hdf5(store, pc.zai, pc.mts)
       IN  pc' = [pc EXCEPT !.stage = "exit",
                     !.path = IF DataKey(pc.zai) \notin DOMAIN store THEN "early_return"
                              ELSE IF r.status = "ok" THEN "return" ELSE "raise",
                     !.outcome = [NoRes EXCEPT !.op = "from_hdf5", !.zai = pc.zai,
                                               !.mts = pc.mts, !.status = r.status,
                                               !.cov = r.cov]]
    /\ UNCHANGED <<store, persisted, nputs, items, cov, res, heap, handles, benchmarks>>

\* The body of CovarianceSuite.from_hdf5: the loop over the keys ends or
\* raises; from_dict runs after the with statement.
BodySuiteFromHdf5 ==
    /\ pc.stage = "body" /\ pc.op = "suite_from_hdf5"
    /\ LET r == suite_from_hdf5(store, pc.zais, pc.mts)
       IN  pc' = [pc EXCEPT !.stage = "exit",
                     !.path = IF r.status = "ok" THEN "return" ELSE "raise",
                     !.outcome = [NoRes EXCEPT !.op = "suite_from_hdf5",
                                               !.zais = pc.zais, !.mts = pc.mts,
                                               !.status = r.status,
                                               !.matrix = r.matrix]]
    /\ UNCHANGED <<store, persisted, nputs, items, cov, res, heap, handles, benchmarks>>

\* Leaving the with statement; control is back with the caller.
Exit ==
    /\ pc.stage = "exit"
    /\ handles' = ExitWith(handles, pc.handle, pc.path)
    /\ res' = pc.outcome
    /\ pc' = [Idle EXCEPT !.path = pc.path]
    /\ UNCHANGED <<store, persisted, nputs, items, cov, heap, benchmarks>>

InitHandles == Init

NextHandles ==
    \/ \E self \in HandleMatrices :
            Open("to_hdf5", "a", self, self.zai[1], AllZais, NoFilter)
    \/ \E zai \in ZAIs, mts \in LevelFilters :
            Open("from_hdf5", "r", EmptyCovariance, zai, AllZais, mts)
    \/ \E zais \in ZaiFilters :
            Open("suite_from_hdf5", "r", EmptyCovariance, 0, zais, NoFilter)
    \/ BodyToHdf5
    \/ BodyFromHdf5
    \/ BodySuiteFromHdf5
    \/ Exit

SpecHandles == InitHandles /\ [][NextHandles]_vars

-----------------------------------------------------------------------------
(* Claims about store handles, checked under SpecHandles. *)

\* C18: after to_hdf5, Covariance.from_hdf5 or CovarianceSuite.from_hdf5
\* returns or raises, no handle opened by the operation remains open, on
\* every way out: normal return, early return for a missing key, exception.
C18_NoHandleLeftOpen ==
    /\ pc.stage = "idle" => handles = {}
    /\ pc.stage \in {"body", "exit"} => handles = {pc.handle}

\* C18 witness: a from_hdf5 that raised on a store holding a block, back
\* with its caller.
C18_Witness ==
    /\ pc.stage = "idle"
    /\ pc.path = "raise"
    /\ res.op = "from_hdf5"
    /\ res.status # "ok"
    /\ BlockStored(store, res.zai)
    /\ handles = {}
-----------------------------------------------------------------------------
(* BenchmarkSuite: benchmarks is a dict from title to Benchmark, modelled  *)
(* as the sequence of its <<title, benchmark>> entries in insertion order; *)
(* a Benchmark object is named by its identity.                            *)

Titles == {"HMF001", "PMF001", "LCT001", "NonExistent"}
BenchmarkIds == {1, 2}

\* title in d
Contains(d, title) == \E i \in 1..Len(d) : d[i][1] = title

\* The value stored under title.
ValueOf(d, title) == d[CHOOSE i \in 1..Len(d) : d[i][1] = title][2]

\* dict.get(title): the value stored under title, or None.
dict_get(d, title) == IF Contains(d, title) THEN Some(ValueOf(d, title)) ELSE None

\* dict.pop(title) with no default: KeyError for an absent title.
dict_pop_NoDefault(d, title) ==
    IF Contains(d, title)
    THEN [status |-> "ok", dict |-> SelectSeq(d, LAMBDA e : e[1] # title)]
    ELSE [status |-> "KeyError", dict |-> d]

\* dict.pop(title, None): the entry is removed if present; never raises.
dict_pop(d, title) ==
    [status |-> "ok", dict |-> SelectSeq(d, LAMBDA e : e[1] # title)]

\* BenchmarkSuite.get
get(d, title) == dict_get(d, title)

\* BenchmarkSuite.remove
remove(d, title) == dict_pop(d, title)

\* The dicts a suite is built from: distinct titles, any Benchmark objects.
BenchmarkDicts ==
    UNION {{d \in [1..n -> (Titles \ {"NonExistent"}) \X BenchmarkIds] :
                \A i, j \in 1..n : d[i][1] = d[j][1] => i = j} : n \in 0..MaxBenchmarks}

InitBench ==
    /\ store = EmptyStore
    /\ persisted = [z \in ZAIs |-> None]
    /\ nputs = 0
    /\ items = <<>>
    /\ cov = EmptyCovariance
    /\ res = NoRes
    /\ heap = <<>>
    /\ handles = {}
    /\ pc = Idle
    /\ benchmarks \in BenchmarkDicts

Get(title) ==
    /\ res' = [NoRes EXCEPT !.op = "get", !.title = title,
                            !.ref = get(benchmarks, title)]
    /\ UNCHANGED <<store, persisted, nputs, items, cov, heap, handles, pc, benchmarks>>

Remove(title) ==
    /\ LET r == remove(benchmarks, title)
       IN  /\ benchmarks' = r.dict
           /\ res' = [NoRes EXCEPT !.op = "remove", !.title = title,
                                   !.status = r.status]
    /\ UNCHANGED <<store, persisted, nputs, items, cov, heap, handles, pc>>

NextBench == \E title \in Titles : Get(title) \/ Remove(title)

SpecBench == InitBench /\ [][NextBench]_vars

-----------------------------------------------------------------------------
(* Claims about BenchmarkSuite, checked under SpecBench. *)

\* The entries of d whose title is not the given one, in order.
Without(d, title) == SelectSeq(d, LAMBDA e : e[1] # title)

\* C20: get(title) returns the benchmark stored under title, or None when
\* title is absent; remove(title) deletes exactly that entry, after which
\* get(title) is None; remove of an absent title raises nothing and leaves
\* the suite's benchmarks unchanged.
C20_GetAndRemove ==
    [][/\ res'.op = "get" =>
            /\ benchmarks' = benchmarks
            /\ \A i \in 1..Len(benchmarks) :
                    benchmarks[i][1] = res'.title => res'.ref = Some(benchmarks[i][2])
            /\ (\A i \in 1..Len(benchmarks) : benchmarks[i][1] # res'.title)
                    => res'.ref = None
       /\ res'.op = "remove" =>
            /\ res'.status = "ok"
            /\ benchmarks' = Without(benchmarks, res'.title)
            /\ get(benchmarks', res'.title) = None
            /\ (\A i \in 1..Len(benchmarks) : benchmarks[i][1] # res'.title)
                    => benchmarks' = benchmarks]_vars

\* C20 witness: an absent title was removed from a suite that holds two
\* benchmarks.
C20_Witness ==
    /\ res.op = "remove"
    /\ res.title = "NonExistent"
    /\ res.status = "ok"
    /\ Len(benchmarks) = 2
-----------------------------------------------------------------------------
(* Claims about what the store holds after to_hdf5, checked under Spec and *)
(* SpecLevels.                                                             *)

\* The rows of the triple table of a nuclide; none when there is no table.
StoredTriples(st, z) == IF BlockStored(st, z) THEN st[DataKey(z)].rows ELSE <<>>

\* The triples (i, j, M[i][j]) with i >= j and M[i][j] # 0, 0-based.
LowerNonZero(values) ==
    {[row |-> i - 1, col |-> j - 1, value |-> values[i][j]] :
        <<i, j>> \in {ij \in (DOMAIN values) \X (DOMAIN values) :
                        ij[1] >= ij[2] /\ values[ij[1]][ij[2]] # 0}}

\* C21: after to_hdf5 of a matrix M the stored triple table contains exactly
\* one triple (i, j, M[i][j]) for each pair i >= j with M[i][j] # 0 and
\* nothing else: no triple with row < col, no triple with value 0.
C21_StoredTriplesExact ==
    res.op = "to_hdf5" =>
        LET rows == StoredTriples(store, res.zai)
            M == persisted[res.zai][1].cov.values
        IN  /\ SeqToSet(rows) = LowerNonZero(M)
            /\ Len(rows) = Cardinality(LowerNonZero(M))
\* C22: to_hdf5 persists an is_multiindex flag that is true exactly when the
\* matrix index is a multi-level key and false when it is a single-level
\* (flat) index, so that a flat-indexed matrix is reloaded through the flat
\* covariances_index/values path.
C22_FlagTellsFlatIndex ==
    (res.op = "to_hdf5" /\ res.status = "ok") =>
        LET self == persisted[res.zai][1].cov
            flat == Len(self.names) = 1
        IN  /\ store[DataKey(res.zai)].attrs.is_multiindex = ~flat
            /\ flat => ValuesKey(res.zai) \in DOMAIN store
\* The persisted shape attribute disagrees with the length of the index that
\* is reconstructed for the block.
ShapeMismatch(st, z) ==
    /\ BlockStored(st, z)
    /\ StoredIndex(st, z).status = "ok"
    /\ \/ st[DataKey(z)].attrs.shape[1] # Len(StoredIndex(st, z).index)
       \/ st[DataKey(z)].attrs.shape[2] # Len(StoredIndex(st, z).index)

\* C23: from_hdf5 raises, with an MT filter as well as without one, whenever
\* the persisted shape attribute disagrees with the length of the
\* reconstructed index; it never returns a matrix in that case.
C23_ShapeMismatchRaises ==
    (res.op = "from_hdf5" /\ ShapeMismatch(store, res.zai)) => res.status # "ok"
\* C26: the store behaves as a map from zai to the last persisted matrix:
\* after any sequence of to_hdf5 calls on one store, from_hdf5(z) returns
\* the matrix most recently persisted for z, and an empty matrix if none was
\* ever persisted for z; a persist for z never changes what is loaded for a
\* different nuclide.
C26_StoreIsMap ==
    [][/\ (res'.op = "from_hdf5" /\ ~res'.mts.given) =>
            /\ res'.status = "ok"
            /\ IF persisted'[res'.zai] = None
               THEN res'.cov.index = <<>> /\ res'.cov.values = <<>>
               ELSE persisted'[res'.zai][1].status = "ok" =>
                        SameFrame(res'.cov, persisted'[res'.zai][1].cov)
       /\ res'.op = "to_hdf5" =>
            \A z \in ZAIs \ {res'.zai} :
                from_hdf5(store', z, NoFilter) = from_hdf5(store, z, NoFilter)]_vars
-----------------------------------------------------------------------------
(* Persistence of matrices that carry all three metadata attributes. *)

\* Values of the err attribute: not set, or one of two values.
Errs == {None, Some(1), Some(2)}

\* The matrices persisted: one row, any metadata.
MetaMatrices ==
    {Covariance(SubSeq(KeyGrid, 1, 1), standard_names, <<<<v>>>>, Some(z), t, e) :
        v \in Values, z \in ZAIs, t \in Temperatures, e \in Errs}

NextMeta ==
    \/ \E self \in MetaMatrices : ToHdf5(self)
    \/ \E zai \in ZAIs : FromHdf5(zai, NoFilter)

SpecMeta == Init /\ [][NextMeta]_vars

\* C28: the err metadata of a Covariance is never persisted: after to_hdf5
\* followed by from_hdf5 the loaded object's err is None, whatever its value
\* was before persisting.
C28_ErrNotPersisted ==
    /\ \A k \in DOMAIN store : "err" \notin DOMAIN store[k].attrs
    /\ (/\ res.op = "from_hdf5"
        /\ persisted[res.zai] # None
        /\ persisted[res.zai][1].status = "ok")
       => (res.status = "ok" => res.cov.err = None)

\* C28 witness: a matrix whose err was set was persisted and loaded back.
C28_Witness ==
    /\ res.op = "from_hdf5"
    /\ res.status = "ok"
    /\ persisted[res.zai] # None
    /\ persisted[res.zai][1].status = "ok"
    /\ persisted[res.zai][1].cov.err = Some(2)
    /\ res.cov.values = persisted[res.zai][1].cov.values
    /\ res.cov.err = None
-----------------------------------------------------------------------------
(* Claims about empty constituents, checked under SpecSuite. *)

\* The map without its empty constituents.
WithoutEmpty(its) == [z \in {y \in DOMAIN its : its[y].index # <<>>} |-> its[z]]

-----------------------------------------------------------------------------
(* Benchmark.to_hdf5.  The benchmark file is the store of this             *)
(* specification: a map from (kind, title) to the group of that benchmark, *)
(* which holds the attributes set so far and the sensitivity table, if one *)
(* was written.                                                            *)

Benchmark(title, kind, m, dm, c, dc, s) ==
    [title |-> title, kind |-> kind, m |-> m, dm |-> dm, c |-> c, dc |-> dc, s |-> s]

GroupKey(kind, title) == <<kind, title>>

\* A group is made anew whether or not one of that name exists.
create_group_Replacing(f, key) ==
    [status |-> "ok", file |-> (key :> [attrs |-> NoAttrs, sensitivity |-> None]) @@ f]

\* h5py Group.create_group: ValueError when the name already exists.
create_group(f, key) ==
    IF key \in DOMAIN f
    THEN [status |-> "ValueError", file |-> f]
    ELSE [status |-> "ok",
          file |-> (key :> [attrs |-> NoAttrs, sensitivity |-> None]) @@ f]

\* DataFrame.to_hdf(key, mode="a", format="table"): no node for an empty
\* frame, the table otherwise.
PutSensitivity(f, key, s) ==
    IF s = <<>> THEN f ELSE [f EXCEPT ![key].sensitivity = Some(s)]

benchmark_to_hdf5(f, self) ==
    LET key == GroupKey(self.kind, self.title)
        made == create_group(f, key)
        f1 == [made.file EXCEPT ![key].attrs =
                  [m |-> self.m, dm |-> self.dm, c |-> self.c, dc |-> self.dc]]
    IN  IF made.status # "ok"
        THEN [status |-> made.status, file |-> made.file]
        ELSE [status |-> "ok", file |-> PutSensitivity(f1, key, self.s)]

\* The benchmarks saved: two titles of kind keff, three choices of the
\* numbers (m, dm, c, dc), an empty sensitivity table or one of two tables.
SavedTitles == {"HMF001", "PMF001"}
SavedNumbers == {<<1, 0, 1, 0>>, <<2, 1, 2, 1>>, <<1, 1, 2, 0>>}
Sensitivities == {<<>>, <<1>>, <<2>>}

SavedBenchmarks ==
    {Benchmark(t, "keff", n[1], n[2], n[3], n[4], s) :
        t \in SavedTitles, n \in SavedNumbers, s \in Sensitivities}

BenchmarkToHdf5(self) ==
    /\ LET r == benchmark_to_hdf5(store, self)
       IN  /\ store' = r.file
           /\ res' = [NoRes EXCEPT !.op = "benchmark_to_hdf5", !.title = self.title,
                                   !.status = r.status, !.ref = Some(self)]
    /\ UNCHANGED <<persisted, nputs, items, cov, others>>

NextBenchFile == \E self \in SavedBenchmarks : BenchmarkToHdf5(self)

SpecBenchFile == Init /\ [][NextBenchFile]_vars

\* C29: Benchmark.to_hdf5 called for a title that already exists under the
\* same kind in the file raises an error before writing anything and never
\* overwrites: the stored m, dm, c, dc and sensitivity of the existing
\* benchmark are unchanged afterwards.
C29_ExistingTitleRaises ==
    [][(/\ res'.op = "benchmark_to_hdf5"
        /\ GroupKey(res'.ref[1].kind, res'.title) \in DOMAIN store)
       => (/\ res'.status # "ok"
           /\ store' = store)]_vars

\* C29 witness: a save under an existing title, with another measurement and
\* another sensitivity than the stored ones, has raised.
C29_Witness ==
    /\ res.op = "benchmark_to_hdf5"
    /\ res.status = "ValueError"
    /\ GroupKey("keff", res.title) \in DOMAIN store
    /\ store[GroupKey("keff", res.title)].attrs.m # res.ref[1].m
    /\ store[GroupKey("keff", res.title)].sensitivity = Some(<<1>>)
    /\ res.ref[1].s = <<2>>
-----------------------------------------------------------------------------
(* Suite assembly from a dict with its insertion order: items is the       *)
(* sequence of the dict's <<zai, Covariance>> entries in the order they    *)
(* were inserted.                                                          *)

OrderZais == {922350, 922380, 942390}

\* The constituents: no row or one row.
OrderMatrices(z) ==
    {Covariance(SubSeq(KeyGrid, 1, n), standard_names,
                [r \in 1..n |-> [c \in 1..n |-> v]], Some(z), None, None) :
        n \in 0..1, v \in Values}

\* items.keys()
dict_keys(d) == {d[i][1] : i \in DOMAIN d}

\* The value of the entry at the place the key has among the sorted keys.
getitem_ByRank(d, key) ==
    d[CHOOSE k \in DOMAIN d : SortedSeq(dict_keys(d))[k] = key][2]

\* items[zai]
getitem(d, key) == ValueOf(d, key)

\* from_dict reads its argument through items.keys() and items[zai] only.
from_dict_entries(d) == from_dict([z \in dict_keys(d) |-> getitem(d, z)])

\* The dicts handed to from_dict: distinct keys, in any insertion order.
OrderedDicts ==
    UNION {{d \in [1..n -> UNION {{<<z, m>> : m \in OrderMatrices(z)} : z \in OrderZais}] :
                \A i, j \in 1..n : d[i][1] = d[j][1] => i = j} :
           n \in 0..Cardinality(OrderZais)}

InitOrder ==
    /\ store = EmptyStore
    /\ persisted = [z \in ZAIs |-> None]
    /\ nputs = 0
    /\ items \in OrderedDicts
    /\ cov = EmptyCovariance
    /\ res = NoRes
    /\ InitOthers

FromDictEntries ==
    /\ LET r == from_dict_entries(items)
       IN  res' = [NoRes EXCEPT !.op = "from_dict", !.status = r.status,
                                !.matrix = r.matrix]
    /\ UNCHANGED <<store, persisted, nputs, items, cov, others>>

NextOrder == FromDictEntries

SpecOrder == InitOrder /\ [][NextOrder]_vars

\* The same entries in every insertion order.
Reorderings(d) ==
    {e \in [DOMAIN d -> SeqToSet(d)] : SeqToSet(e) = SeqToSet(d)}

\* C25: from_dict yields the same matrix (same keys in the same order, same
\* values) for every insertion order of the same set of ZAI-to-Covariance
\* entries in its input map.
C25_InsertionOrderIrrelevant ==
    res.op = "from_dict" =>
        \A e \in Reorderings(items) :
            /\ from_dict_entries(e).status = res.status
            /\ from_dict_entries(e).matrix = res.matrix

\* C25 witness: a suite assembled from three entries inserted in descending
\* ZAI order, two of them with a row.
C25_Witness ==
    /\ res.op = "from_dict"
    /\ res.status = "ok"
    /\ Len(items) = 3
    /\ items[1][1] > items[2][1]
    /\ items[2][1] > items[3][1]
    /\ Len(res.matrix.index) = 2
    /\ res.matrix.values[1][1] # res.matrix.values[2][2]
-----------------------------------------------------------------------------
(* Loading a file that to_hdf5 did not write: the block of a nuclide has   *)
(* the layout to_hdf5 gives it (level tables, triple table, attributes),   *)
(* but its triple table holds any triples within the declared shape.       *)

\* The triples a table may hold for a 2 x 2 block.
ForeignTriples ==
    {[row |-> r, col |-> c, value |-> v] : r \in 0..1, c \in 0..1, v \in {1, 2}}

\* The tables of one or two triples.
ForeignTables ==
    {<<t>> : t \in ForeignTriples} \cup {<<t, u>> : t \in ForeignTriples, u \in ForeignTriples}

\* The file holding such a table for nuclide 922350 over the first two keys
\* of the grid.
ForeignStore(rows) ==
    LET self == Covariance(SubSeq(KeyGrid, 1, 2), standard_names, Zeros(2),
                           Some(922350), None, None)
        st1 == PutLevels(EmptyStore, 922350, self.index, Len(self.names))
        st2 == StorePut(st1, DataKey(922350), rows)
    IN  SetAttrs(st2, DataKey(922350), BlockAttrs(self))

InitForeign ==
    /\ store \in {ForeignStore(rows) : rows \in ForeignTables}
    /\ persisted = [z \in ZAIs |-> None]
    /\ nputs = 0
    /\ items = [z \in {} |-> 0]
    /\ cov = EmptyCovariance
    /\ res = NoRes
    /\ InitOthers

NextForeign == \E mts \in LevelFilters : FromHdf5(922350, mts)

SpecForeign == InitForeign /\ [][NextForeign]_vars

\* Some triple lies above the diagonal, or both (i, j) and (j, i) are stored.
NotPurelyLower(rows) ==
    \/ \E k \in DOMAIN rows : rows[k].row < rows[k].col
    \/ \E k, l \in DOMAIN rows :
            /\ rows[k].row # rows[k].col
            /\ rows[k].row = rows[l].col
            /\ rows[k].col = rows[l].row

\* C24: from_hdf5 raises whenever the stored triples are not purely
\* lower-triangular (some triple has row < col, or both (i, j) and (j, i)
\* are stored); it never returns a matrix built from such data.
C24_NotLowerRaises ==
    (/\ res.op = "from_hdf5"
     /\ BlockStored(store, res.zai)
     /\ NotPurelyLower(store[DataKey(res.zai)].rows))
    => res.status # "ok"
-----------------------------------------------------------------------------
(* CovarianceSuite.from_hdf5 step by step, on files that hold tables       *)
(* to_hdf5 does not write.  The suite load opens the file, walks the keys  *)
(* and, for each key whose nuclide it can read and does not skip, calls    *)
(* Covariance.from_hdf5, which opens the file itself; the suite's with     *)
(* statement ends after the loop.                                          *)

\* int(zai_key.split("/")[2].split("_")[1])
ParseZai(path) ==
    IF Len(path) < 3 \/ Len(path[3]) < 2 THEN [status |-> "IndexError", zai |-> 0]
    ELSE IF ~IsNumeric(path[3][2]) THEN [status |-> "ValueError", zai |-> 0]
    ELSE [status |-> "ok", zai |-> ParseInt(path[3][2].num)]

\* The nuclide ids the part tables of the files are named by.
PartIds == {18, 922350, 922380}

\* The block to_hdf5 writes for a one-row matrix of nuclide 922380.
WrittenBlock ==
    to_hdf5(EmptyStore,
            Covariance(SubSeq(KeyGrid, 1, 1), standard_names, <<<<1>>>>,
                       Some(922380), None, None)).store

\* The files: part tables in the group of 922350, with or without the block.
NestedStores ==
    {[k \in {PartKey(922350, n) : n \in P} |-> [rows |-> <<1>>, attrs |-> NoAttrs]] @@ b :
        P \in SUBSET PartIds, b \in {EmptyStore, WrittenBlock}}

InitNested ==
    /\ store \in NestedStores
    /\ persisted = [z \in ZAIs |-> None]
    /\ nputs = 0
    /\ items = [z \in {} |-> 0]
    /\ cov = EmptyCovariance
    /\ res = NoRes
    /\ InitOthers

\* with pd.HDFStore(file_path, mode="r") as store: zai_keys = [...]
SuiteOpen(zais, mts) ==
    /\ pc.stage = "idle"
    /\ handles' = handles \cup {NewHandle(handles, "r")}
    /\ pc' = [Idle EXCEPT !.op = "suite_from_hdf5", !.stage = "loop",
                          !.zais = zais, !.mts = mts,
                          !.handle = NewHandle(handles, "r"),
                          !.keys = SelectSeq(StoreKeys(store), StartsWithZai),
                          !.covs = [z \in {} |-> 0]]
    /\ UNCHANGED <<store, persisted, nputs, items, cov, res, heap, benchmarks>>

\* One turn of the loop up to the call of Covariance.from_hdf5, or the end
\* of the loop.
SuiteIterate ==
    /\ pc.stage = "loop"
    /\ LET done == [NoRes EXCEPT !.op = "suite_from_hdf5", !.zais = pc.zais,
                                 !.mts = pc.mts]
       IN  IF pc.keys = <<>>
           THEN pc' = [pc EXCEPT !.stage = "exit", !.path = "return",
                          !.outcome = [done EXCEPT
                                         !.status = from_dict(pc.covs).status,
                                         !.matrix = from_dict(pc.covs).matrix]]
           ELSE LET parsed == ParseZai(Head(pc.keys))
                IN  IF parsed.status # "ok"
                    THEN pc' = [pc EXCEPT !.stage = "exit", !.path = "raise",
                                   !.outcome = [done EXCEPT !.status = parsed.status]]
                    ELSE IF pc.zais.given /\ parsed.zai \notin pc.zais.zais
                    THEN pc' = [pc EXCEPT !.keys = Tail(pc.keys)]
                    ELSE pc' = [pc EXCEPT !.stage = "nested_call", !.zai = parsed.zai]
    /\ UNCHANGED <<store, persisted, nputs, items, cov, res, heap, handles, benchmarks>>

\* Covariance.from_hdf5 called from the loop opens the file.
NestedOpen ==
    /\ pc.stage = "nested_call"
    /\ handles' = handles \cup {NewHandle(handles, "r")}
    /\ pc' = [pc EXCEPT !.stage = "nested_body", !.inner = NewHandle(handles, "r")]
    /\ UNCHANGED <<store, persisted, nputs, items, cov, res, heap, benchmarks>>

\* Covariance.from_hdf5 runs its body and leaves its with statement; the
\* loop goes on with the next key, or the exception ends it.
NestedReturn ==
    /\ pc.stage = "nested_body"
    /\ LET r == from_hdf5(store, pc.zai, pc.mts)
       IN  /\ handles' = ExitWith(handles, pc.inner,
                                  IF r.status = "ok" THEN "return" ELSE "raise")
           /\ IF r.status = "ok"
              THEN pc' = [pc EXCEPT !.stage = "loop", !.keys = Tail(pc.keys),
                             !.covs = (pc.zai :> r.cov) @@ pc.covs, !.inner = 0]
              ELSE pc' = [pc EXCEPT !.stage = "exit", !.path = "raise", !.inner = 0,
                             !.outcome = [NoRes EXCEPT !.op = "suite_from_hdf5",
                                            !.zais = pc.zais, !.mts = pc.mts,
                                            !.status = r.status]]
    /\ UNCHANGED <<store, persisted, nputs, items, cov, res, heap, benchmarks>>

NextNested ==
    \/ \E zais \in ZaiFilters, mts \in LevelFilters : SuiteOpen(zais, mts)
    \/ SuiteIterate
    \/ NestedOpen
    \/ NestedReturn
    \/ Exit

SpecNested == InitNested /\ [][NextNested]_vars

\* C30: at every moment during any operation at most one handle on the
\* store is open; in particular CovarianceSuite.from_hdf5 never opens the
\* store for a per-nuclide load while its own enumerating handle is open.
C30_OneHandleAtATime ==
    /\ Cardinality(handles) <= 1
    /\ pc.stage = "nested_body" => pc.handle \notin handles
=============================================================================
